---- MODULE Spec2Model ----
(***************************************************************************)
(* A model of benchmarks/wikipedia/wikipedia_gpu_benchmark.py: the corpus  *)
(* loader with its fallback queries (WikipediaAnalyzer.load_text_data),    *)
(* the CPU and GPU engines and the harness main() that times them.         *)
(*                                                                         *)
(* Python values are encoded as sequences so that TLC can compare them:    *)
(*   None            <<>>            an int n          <<n>>               *)
(*   a str           the sequence of its characters ("" is <<>>)           *)
(*   a table cell    <<>> for SQL NULL, <<s>> for the text s               *)
(*   a query string  <<sql, lim>>: the statement text and the LIMIT        *)
(*                   clause appended to it (<<>> when none was appended)   *)
(***************************************************************************)
EXTENDS Integers, Sequences, FiniteSets, TLC

\* ------------------------------------------------------------------ bounds
MaxRows == 2
MaxLimit == 2
MaxElapsed == 1
MaxTextLen == 3
MaxTopN == 2
MaxCharTextLen == 6

\* ------------------------------------------------------- program constants
\* main(): top_n=100 in the call of word_frequency_cpu
TopNMain == 100

None == <<>>
Some(n) == <<n>>

\* ------------------------------------------------------------ the database
\* The column names the loader's five statements select.
Columns == {"SECTION_TEXT", "text", "content", "body"}

\* The text stored in row r when the cell holds a non-empty string: r
\* characters long, so that rows are told apart and their order is visible.
RowText(r) == [k \in 1..r |-> IF k % 2 = 1 THEN "a" ELSE "1"]

\* A cell of row r: NULL, the empty string, or the row's text.
Cells(r) == {None, Some(<<>>), Some(RowText(r))}

ColumnData(R) == {f \in [1..R -> UNION {Cells(r) : r \in 1..R}] :
                    \A r \in 1..R : f[r] \in Cells(r)}

\* The table carries none, one or two of the probed column names.
Schemas == {{}} \cup {{c1, c2} : c1 \in Columns, c2 \in Columns}

\* A database: whether the table articles exists and, if it does, the cells
\* of each of its text columns (all columns have the same number of rows).
DBs == {[table |-> FALSE, data |-> <<>>]} \cup
       UNION {{[table |-> TRUE, data |-> d] : d \in [s -> ColumnData(R)]} :
                 s \in Schemas, R \in 0..MaxRows}

\* ------------------------------------------------------------- the queries
PrimarySql == "SELECT SECTION_TEXT FROM ARTICLES WHERE SECTION_TEXT IS NOT NULL"

possible_queries == <<"SELECT SECTION_TEXT FROM articles",
                      "SELECT text FROM articles",
                      "SELECT content FROM articles",
                      "SELECT body FROM articles">>

\* The column a statement selects, and whether it filters NULL cells.
SelectedColumn(sql) ==
    CASE sql = PrimarySql -> "SECTION_TEXT"
      [] sql = possible_queries[1] -> "SECTION_TEXT"
      [] sql = possible_queries[2] -> "text"
      [] sql = possible_queries[3] -> "content"
      [] sql = possible_queries[4] -> "body"

WhereNotNull(sql) == sql = PrimarySql

\* Python's truth value of the limit argument: None and 0 are false.
Truthy(lim) == lim # None /\ lim[1] # 0

\* query = <statement>; if limit: query += f" LIMIT {limit}"
BuildQuery(sql, lim) == <<sql, IF Truthy(lim) THEN lim ELSE None>>

\* SQLite raises sqlite3.Error ("no such table", "no such column") when the
\* table or the selected column is missing.
Raises(db, q) == ~db.table \/ SelectedColumn(q[1]) \notin DOMAIN db.data

Min(a, b) == IF a < b THEN a ELSE b

\* SQL LIMIT n: the first n rows; a negative n is no upper bound.
ApplyLimit(rows, lim) ==
    IF lim = None \/ lim[1] < 0 THEN rows
    ELSE SubSeq(rows, 1, Min(lim[1], Len(rows)))

IsNotNull(cell) == cell # None

\* cursor.execute(query); cursor.fetchall(): the rows the statement returns.
FetchAll(db, q) ==
    LET col == db.data[SelectedColumn(q[1])]
        kept == IF WhereNotNull(q[1]) THEN SelectSeq(col, IsNotNull) ELSE col
    IN  ApplyLimit(kept, q[2])

\* IsUsable as "if row[0] is not None": the empty string is kept.
IsUsableOrEmpty(cell) == cell # None

\* "if row[0]": a row is kept when its value is neither None nor "".
IsUsable(cell) == cell # None /\ cell[1] # <<>>

\* [row[0] for row in cursor.fetchall() if row[0]]
UsableTexts(rows) ==
    LET kept == SelectSeq(rows, IsUsable)
    IN  [k \in 1..Len(kept) |-> kept[k][1]]

\* ------------------------------------------------------------------- state
VARIABLES
    mode,           \* what the process runs: main(), or a direct call of load_text_data
    GPU_AVAILABLE,  \* module flag: whether "import cupy" succeeded (lines 43-49)
    pc,             \* the line about to be executed
    conn,           \* WikipediaAnalyzer.conn: "none", "open" or "closed"
    cursor,         \* load_text_data: the cursor, as the database it reads (None outside the call)
    limit,          \* load_text_data: the limit argument
    idx,            \* load_text_data: position of the for loop in possible_queries
    executed,       \* the statements passed to cursor.execute, in order
    query,          \* the local "query" of load_text_data, then of main
    texts,          \* the local "texts" of load_text_data, then of main
    results,        \* main: the dict results, as its (key, value) pairs in insertion order
    cpu_time,       \* main: the local cpu_time
    gpu_time,       \* main: the local gpu_time
    speedups,       \* the speedup values computed, in order
    stdout,         \* the section headers printed, in order
    devlog,         \* the device operations of the running GPU engine, in order
    gpu_engine,     \* the GPU engine whose device operations devlog holds
    words,          \* word_frequency_cpu: None, or <<top_n, top_words, total_words, unique_words>>
    cpu_lengths,    \* analyze_text_lengths_cpu: None, or the stats <<count, total, min, max>>
    gpu_lengths,    \* analyte_text_lengths_gpu: None, or the stats <<count, total, min, max>>
    cpu_chars,      \* character_distribution_cpu: None, or <<letters, digits, spaces, total, unique>>
    gpu_chars,      \* character_distribution_gpu: None, or <<letters, digits, spaces, total, unique>>
    exit_status,    \* None while the process runs, then its exit status
    halt            \* how the process ended: "running", the line of a sys.exit, "end",
                    \* or the exception that was not caught

vars == <<mode, GPU_AVAILABLE, pc, conn, cursor, limit, idx, executed, query,
          texts, results, cpu_time, gpu_time, speedups, stdout, devlog,
          gpu_engine, words, cpu_lengths, gpu_lengths, cpu_chars, gpu_chars,
          exit_status, halt>>

loadVars == <<cursor, limit, idx, executed, query, texts>>
statVars == <<cpu_lengths, gpu_lengths, cpu_chars, gpu_chars>>
mainVars == <<results, cpu_time, gpu_time, speedups, stdout, devlog, gpu_engine, words,
              statVars>>
exitVars == <<exit_status, halt>>

\* main(): article_limit = 1000000
ArticleLimitDefault == 1000000

\* The limit argument of a direct call: None or an int.
Limits == {None} \cup {Some(n) : n \in (0 - 1)..MaxLimit}

\* main(): article_limit is the default or int(sys.argv[2]).
MainLimits == {Some(n) : n \in ((0 - 1)..MaxLimit) \cup {ArticleLimitDefault}}

\* end - start of two time.time() readings.
Elapsed == 0..MaxElapsed

Init ==
    /\ mode \in {"main", "load_text_data"}
    /\ GPU_AVAILABLE \in BOOLEAN
    /\ pc = IF mode = "main" THEN "L27" ELSE "call"
    /\ conn = IF mode = "main" THEN "none" ELSE "open"
    /\ cursor = None
    /\ limit = None
    /\ idx = 0
    /\ executed = <<>>
    /\ query = None
    /\ texts = <<>>
    /\ results = <<>>
    /\ cpu_time = 0
    /\ gpu_time = 0
    /\ speedups = <<>>
    /\ stdout = <<>>
    /\ devlog = <<>>
    /\ gpu_engine = "none"
    /\ words = None
    /\ cpu_lengths = None
    /\ gpu_lengths = None
    /\ cpu_chars = None
    /\ gpu_chars = None
    /\ exit_status = None
    /\ halt = "running"

\* sys.exit(status) or an uncaught exception: the process ends.
Exit(status, where) ==
    /\ pc' = "exited"
    /\ exit_status' = Some(status)
    /\ halt' = where

\* ------------------------------------------------------- load_text_data
\* Lines 95-102: the cursor is opened and the primary query is built.
EnterLoad(db, lim) ==
    /\ cursor' = Some(db)
    /\ limit' = lim
    /\ query' = BuildQuery(PrimarySql, lim)
    /\ idx' = 0
    /\ executed' = <<>>
    /\ texts' = <<>>
    /\ pc' = "L104"

\* A direct call analyzer.load_text_data(limit) on an open connection.
LoadCall ==
    /\ pc = "call"
    /\ \E db \in DBs, lim \in Limits : EnterLoad(db, lim)
    /\ UNCHANGED <<mode, GPU_AVAILABLE, conn, mainVars, exitVars>>

\* Lines 104-119: the primary query; sqlite3.Error enters the fallback loop.
TryPrimary ==
    /\ pc = "L104"
    /\ executed' = Append(executed, query)
    /\ IF Raises(cursor[1], query)
       THEN /\ texts' = <<>>
            /\ idx' = 1
            /\ pc' = "L120"
       ELSE /\ texts' = UsableTexts(FetchAll(cursor[1], query))
            /\ idx' = idx
            /\ pc' = "L139"
    /\ UNCHANGED <<mode, GPU_AVAILABLE, conn, cursor, limit, query, mainVars, exitVars>>

\* Lines 120-133: one iteration of "for fallback_query in possible_queries".
\* The statement is executed only inside "if limit:".
TryFallback ==
    /\ pc = "L120"
    /\ idx \in 1..Len(possible_queries)
    /\ LET q == BuildQuery(possible_queries[idx], limit)
           ran == Truthy(limit)
           ok == ran /\ ~Raises(cursor[1], q)
           got == IF ok THEN UsableTexts(FetchAll(cursor[1], q)) ELSE texts
           leave == (ok /\ got # <<>>) \/ idx = Len(possible_queries)
       IN  /\ query' = q
           /\ executed' = IF ran THEN Append(executed, q) ELSE executed
           /\ texts' = got
           /\ idx' = IF leave THEN idx ELSE idx + 1
           /\ pc' = IF leave THEN "L135" ELSE "L120"
    /\ UNCHANGED <<mode, GPU_AVAILABLE, conn, cursor, limit, mainVars, exitVars>>

\* Where load_text_data returns to.
ReturnPc == IF mode = "main" THEN "L389" ELSE "returned"

\* Lines 135-137: after the loop, "if not texts: return [], None".
AfterFallbacks ==
    /\ pc = "L135"
    /\ IF texts = <<>>
       THEN /\ query' = None
            /\ pc' = ReturnPc
       ELSE /\ query' = query
            /\ pc' = "L139"
    /\ UNCHANGED <<mode, GPU_AVAILABLE, conn, cursor, limit, idx, executed, texts,
                   mainVars, exitVars>>

\* Lines 139-145: the totals are printed; "return texts, query".
ReturnLoaded ==
    /\ pc = "L139"
    /\ pc' = ReturnPc
    /\ UNCHANGED <<mode, GPU_AVAILABLE, conn, loadVars, mainVars, exitVars>>

\* ------------------------------------------------------------------ main
RECURSIVE GCD(_, _)
GCD(a, b) == IF b = 0 THEN a ELSE GCD(b, a % b)

\* The quotient c / g of two elapsed times (g > 0), as a fraction in lowest terms.
Ratio(c, g) == <<c \div GCD(c, g), g \div GCD(c, g)>>

Zero == <<0, 1>>

\* Lines 404 and 418: speedup = cpu_time / gpu_time if gpu_time > 0 else 0
GuardedSpeedup(c, g) == IF g > 0 THEN Ratio(c, g) ELSE Zero

\* results[key], and "key in results"
HasKey(d, key) == \E k \in 1..Len(d) : d[k][1] = key
Lookup(d, key) == d[CHOOSE k \in 1..Len(d) : d[k][1] = key][2]

\* results[key] = value: a new key goes last, an old one keeps its place.
SetItem(d, key, value) ==
    IF HasKey(d, key)
    THEN [k \in 1..Len(d) |-> IF d[k][1] = key THEN <<key, value>> ELSE d[k]]
    ELSE Append(d, <<key, value>>)

\* Lines 26-31: the module refuses to run as root.
ModuleStart ==
    /\ pc = "L27"
    /\ \E root \in BOOLEAN :
          IF root THEN Exit(1, "L31")
                  ELSE pc' = "L374" /\ UNCHANGED exitVars
    /\ UNCHANGED <<mode, GPU_AVAILABLE, conn, loadVars, mainVars>>

\* Lines 374-377 and connect (58-66): sqlite3.connect succeeds, or raises
\* sqlite3.Error, which connect turns into False and main into sys.exit(1).
Connect ==
    /\ pc = "L374"
    /\ \E ok \in BOOLEAN :
          IF ok THEN conn' = "open" /\ pc' = "L380" /\ UNCHANGED exitVars
                ELSE conn' = conn /\ Exit(1, "L377")
    /\ UNCHANGED <<mode, GPU_AVAILABLE, loadVars, mainVars>>

\* Line 380 and get_table_info (68-84): the tables are listed and printed.
GetTableInfo ==
    /\ pc = "L380"
    /\ pc' = "L383"
    /\ stdout' = Append(stdout, "DATABASE TABLES")
    /\ UNCHANGED <<mode, GPU_AVAILABLE, conn, loadVars, results, cpu_time, gpu_time,
                   speedups, devlog, gpu_engine, words, statVars, exitVars>>

\* Lines 383-387: main calls load_text_data(limit=article_limit).
MainLoad ==
    /\ pc = "L383"
    /\ stdout' = Append(stdout, "LOADING DATA")
    /\ \E db \in DBs, article_limit \in MainLimits : EnterLoad(db, article_limit)
    /\ UNCHANGED <<mode, GPU_AVAILABLE, conn, results, cpu_time, gpu_time,
                   speedups, devlog, gpu_engine, words, statVars, exitVars>>

\* Lines 389-395: the call has returned and its frame is gone; without
\* texts main closes the connection and calls sys.exit() (status 0).
CheckTexts ==
    /\ pc = "L389"
    /\ cursor' = None
    /\ limit' = None
    /\ idx' = 0
    /\ executed' = <<>>
    /\ IF texts = <<>>
       THEN /\ conn' = "closed"
            /\ Exit(0, "L392")
       ELSE /\ conn' = conn
            /\ pc' = "L398"
            /\ UNCHANGED exitVars
    /\ results' = <<>>
    /\ UNCHANGED <<mode, GPU_AVAILABLE, query, texts, cpu_time, gpu_time, speedups,
                   stdout, devlog, gpu_engine, words, statVars>>

\* Line 156: lengths = np.array([len(text) for text in texts])
Lengths(ts) == [k \in 1..Len(ts) |-> Len(ts[k])]

RECURSIVE SumSeq(_)
SumSeq(xs) == IF xs = <<>> THEN 0 ELSE Head(xs) + SumSeq(Tail(xs))

MinSeq(xs) == CHOOSE x \in {xs[k] : k \in 1..Len(xs)} : \A k \in 1..Len(xs) : x <= xs[k]
MaxSeq(xs) == CHOOSE x \in {xs[k] : k \in 1..Len(xs)} : \A k \in 1..Len(xs) : x >= xs[k]

\* Lines 159-167 and 201-209, for a corpus that is not empty: count, total,
\* min and max. The mean is total / count, the divisor being count.
LengthStats(ts) ==
    LET lengths == Lengths(ts)
    IN  <<Len(lengths), SumSeq(lengths), MinSeq(lengths), MaxSeq(lengths)>>

\* analyze_text_lengths_cpu (147-182), then the line next. On an empty corpus
\* the mean is nan and np.min (line 164) raises ValueError.
LengthsCpuStep(next) ==
    /\ pc = "L398"
    /\ stdout' = Append(stdout, "CPU: Text Length Analysis")
    /\ IF texts = <<>>
       THEN /\ Exit(1, "ValueError")
            /\ UNCHANGED <<cpu_time, results, cpu_lengths>>
       ELSE /\ cpu_lengths' = LengthStats(texts)
            /\ \E elapsed \in Elapsed :
                  /\ cpu_time' = elapsed
                  /\ results' = SetItem(results, "lengths_cpu", elapsed)
            /\ pc' = next
            /\ UNCHANGED exitVars
    /\ UNCHANGED <<mode, GPU_AVAILABLE, conn, loadVars, gpu_time, speedups, devlog,
                   gpu_engine, words, gpu_lengths, cpu_chars, gpu_chars>>

\* LengthsCpu without the test of line 401: the GPU engine is always called.
LengthsCpuThenGpu == LengthsCpuStep("L402")

\* Lines 398-401 and analyze_text_lengths_cpu (147-182).
LengthsCpu == LengthsCpuStep(IF GPU_AVAILABLE THEN "L402" ELSE "L408")

\* Line 402 and analyte_text_lengths_gpu, lines 186-194: without the flag the
\* engine returns (None, 0); with it the header is printed and the timer started.
LengthsGpuCall ==
    /\ pc = "L402"
    /\ IF ~GPU_AVAILABLE
       THEN /\ gpu_time' = 0
            /\ gpu_lengths' = None
            /\ pc' = "L403"
            /\ UNCHANGED <<stdout, devlog, gpu_engine>>
       ELSE /\ stdout' = Append(stdout, "GPU: Text Length Analysis")
            /\ devlog' = <<"timer_start">>
            /\ gpu_engine' = "lengths"
            /\ gpu_time' = gpu_time
            /\ gpu_lengths' = gpu_lengths
            /\ pc' = "L197"
    /\ UNCHANGED <<mode, GPU_AVAILABLE, conn, loadVars, results, cpu_time, speedups,
                   words, cpu_lengths, cpu_chars, gpu_chars, exitVars>>

\* Lines 197-198: lengths_gpu = cp.array(lengths_cpu), the host-to-device copy.
LengthsGpuTransfer ==
    /\ pc = "L197"
    /\ devlog' = Append(devlog, "h2d")
    /\ pc' = "L201"
    /\ UNCHANGED <<mode, GPU_AVAILABLE, conn, loadVars, results, cpu_time, gpu_time,
                   speedups, stdout, gpu_engine, words, statVars, exitVars>>

\* One statistic of the dict at lines 201-209, int(cp.sum(lengths_gpu)) and
\* the like: the reduction is issued and int() or float() reads its result back.
ReduceAndRead == <<"reduce", "readback">>

\* Lines 201-209: total, mean, std, min, max and median, in that order. On
\* an empty corpus cp.min (line 206) raises ValueError after the first three.
LengthsGpuStats ==
    /\ pc = "L201"
    /\ IF texts = <<>>
       THEN /\ devlog' = devlog \o ReduceAndRead \o ReduceAndRead \o ReduceAndRead
            /\ Exit(1, "ValueError")
            /\ UNCHANGED gpu_lengths
       ELSE /\ devlog' = devlog \o ReduceAndRead \o ReduceAndRead \o ReduceAndRead
                               \o ReduceAndRead \o ReduceAndRead \o ReduceAndRead
            /\ gpu_lengths' = LengthStats(texts)
            /\ pc' = "L212"
            /\ UNCHANGED exitVars
    /\ UNCHANGED <<mode, GPU_AVAILABLE, conn, loadVars, results, cpu_time, gpu_time,
                   speedups, stdout, gpu_engine, words, cpu_lengths, cpu_chars,
                   gpu_chars>>

\* Line 212: cp.cuda.Stream.null.synchronize()
LengthsGpuSync ==
    /\ pc = "L212"
    /\ devlog' = Append(devlog, "synchronize")
    /\ pc' = "L214"
    /\ UNCHANGED <<mode, GPU_AVAILABLE, conn, loadVars, results, cpu_time, gpu_time,
                   speedups, stdout, gpu_engine, words, statVars, exitVars>>

\* Lines 214-227: the timer is stopped and (stats, elapsed) returned to line 402.
LengthsGpuStop ==
    /\ pc = "L214"
    /\ devlog' = Append(devlog, "timer_stop")
    /\ \E elapsed \in Elapsed : gpu_time' = elapsed
    /\ pc' = "L403"
    /\ UNCHANGED <<mode, GPU_AVAILABLE, conn, loadVars, results, cpu_time,
                   speedups, stdout, gpu_engine, words, statVars, exitVars>>

\* Lines 403-405: the GPU time is recorded and the speedup computed.
LengthsSpeedup ==
    /\ pc = "L403"
    /\ results' = SetItem(results, "lengths_gpu", gpu_time)
    /\ speedups' = Append(speedups, <<"lengths", "L404", GuardedSpeedup(cpu_time, gpu_time)>>)
    /\ pc' = "L408"
    /\ UNCHANGED <<mode, GPU_AVAILABLE, conn, loadVars, cpu_time, gpu_time, stdout,
                   devlog, gpu_engine, words, statVars, exitVars>>

\* ---------------------------------------------------- word_frequency_cpu
\* The characters \w matches, among those the model's texts are made of.
WordChars == {"a", "b", "c", "d", "e", "g", "h", "o", "s", "t", "A", "B", "1", "_"}

IsWordChar(c) == c \in WordChars

\* str.lower(), character by character.
Lower(c) == CASE c = "A" -> "a" [] c = "B" -> "b" [] OTHER -> c

LowerText(text) == [k \in 1..Len(text) |-> Lower(text[k])]

\* re.findall(r'\b\w+\b', s): the maximal runs of word characters of s, left
\* to right. cur is the run being read, acc the runs already closed.
RECURSIVE ScanWords(_, _, _, _)
ScanWords(s, k, cur, acc) ==
    LET closed == IF cur = <<>> THEN acc ELSE Append(acc, cur)
    IN  IF k > Len(s) THEN closed
        ELSE IF IsWordChar(s[k]) THEN ScanWords(s, k + 1, Append(cur, s[k]), acc)
        ELSE ScanWords(s, k + 1, <<>>, closed)

\* Line 241: words = re.findall(r'\b\w+\b', text.lower())
FindAllWords(text) == ScanWords(LowerText(text), 1, <<>>, <<>>)

\* Line 242: word_counts.update(words). A Counter is a dict: the list of its
\* (word, count) pairs in insertion order.
RECURSIVE CounterUpdate(_, _)
CounterUpdate(counter, ws) ==
    IF ws = <<>> THEN counter
    ELSE LET w == Head(ws)
             n == IF HasKey(counter, w) THEN Lookup(counter, w) ELSE 0
         IN  CounterUpdate(SetItem(counter, w, n + 1), Tail(ws))

\* Lines 238-242: the loop over texts.
RECURSIVE CountWords(_, _)
CountWords(counter, ts) ==
    IF ts = <<>> THEN counter
    ELSE CountWords(CounterUpdate(counter, FindAllWords(Head(ts))), Tail(ts))

\* InsertByCount with an order that is not stable: an item goes in front of
\* the items of equal count.
RECURSIVE InsertByCountUnstable(_, _)
InsertByCountUnstable(sorted, item) ==
    IF sorted = <<>> THEN <<item>>
    ELSE IF Head(sorted)[2] > item[2]
         THEN <<Head(sorted)>> \o InsertByCountUnstable(Tail(sorted), item)
         ELSE <<item>> \o sorted

\* sorted(items, key=itemgetter(1), reverse=True) is stable: an item goes
\* behind every item whose count is at least its own.
RECURSIVE InsertByCount(_, _)
InsertByCount(sorted, item) ==
    IF sorted = <<>> THEN <<item>>
    ELSE IF Head(sorted)[2] >= item[2]
         THEN <<Head(sorted)>> \o InsertByCount(Tail(sorted), item)
         ELSE <<item>> \o sorted

RECURSIVE SortByCount(_, _)
SortByCount(sorted, items) ==
    IF items = <<>> THEN sorted
    ELSE SortByCount(InsertByCount(sorted, Head(items)), Tail(items))

\* Line 244: Counter.most_common(n), heapq.nlargest(n, items, key=count),
\* which returns what sorted(items, key=count, reverse=True)[:n] returns.
MostCommon(counter, n) ==
    LET sorted == SortByCount(<<>>, counter)
    IN  SubSeq(sorted, 1, Min(n, Len(sorted)))

\* Line 245: sum(word_counts.values())
RECURSIVE SumCounts(_)
SumCounts(counter) ==
    IF counter = <<>> THEN 0 ELSE Head(counter)[2] + SumCounts(Tail(counter))

\* Lines 237-246: top_words, total_words and unique_words.
WordFrequency(ts, top_n) ==
    LET word_counts == CountWords(<<>>, ts)
    IN  <<top_n, MostCommon(word_counts, top_n), SumCounts(word_counts),
          Len(word_counts)>>

\* Lines 408-409 and word_frequency_cpu (229-260).
WordFrequencyCpu ==
    /\ pc = "L408"
    /\ stdout' = Append(stdout, "CPU: Word Frequency Analysis")
    /\ words' = WordFrequency(texts, TopNMain)
    /\ \E elapsed \in Elapsed :
          /\ cpu_time' = elapsed
          /\ results' = SetItem(results, "words_cpu", elapsed)
    /\ pc' = "L412"
    /\ UNCHANGED <<mode, GPU_AVAILABLE, conn, loadVars, gpu_time, speedups, devlog,
                   gpu_engine, statVars, exitVars>>

\* A direct call analyzer.word_frequency_cpu(texts, top_n).
WordFrequencyCall ==
    /\ pc = "call_words"
    /\ stdout' = Append(stdout, "CPU: Word Frequency Analysis")
    /\ \E top_n \in 0..MaxTopN : words' = WordFrequency(texts, top_n)
    /\ \E elapsed \in Elapsed : cpu_time' = elapsed
    /\ pc' = "returned"
    /\ UNCHANGED <<mode, GPU_AVAILABLE, conn, loadVars, results, gpu_time, speedups,
                   devlog, gpu_engine, statVars, exitVars>>

\* ------------------------------------------------ character distribution
\* str.isalpha() and str.isdigit() on the characters the model's texts are
\* made of ("é" is a letter; " ", "." and "_" are neither).
AlphaChars == {"a", "b", "c", "d", "e", "g", "h", "o", "s", "t", "A", "B", "Z", "é"}
DigitChars == {"1", "2"}

IsAlpha(c) == c \in AlphaChars

\* IsDigit with str.isalnum() in the place of str.isdigit().
IsAlnum(c) == c \in AlphaChars \cup DigitChars

IsDigit(c) == c \in DigitChars

\* Lines 271 and 309: ''.join(texts)
RECURSIVE Join(_)
Join(ts) == IF ts = <<>> THEN <<>> ELSE Head(ts) \o Join(Tail(ts))

\* char_counts.get(unit, 0)
GetCount(hist, unit) == IF HasKey(hist, unit) THEN Lookup(hist, unit) ELSE 0

\* Lines 270-280: the histogram of the characters and the counts of its
\* letters, digits and spaces, as <<letters, digits, spaces, total, unique>>.
CharDistributionCpu(ts) ==
    LET all_text == Join(ts)
        char_counts == CounterUpdate(<<>>, all_text)
        Letter(item) == IsAlpha(item[1])
        Digit(item) == IsDigit(item[1])
    IN  <<SumCounts(SelectSeq(char_counts, Letter)),
          SumCounts(SelectSeq(char_counts, Digit)),
          GetCount(char_counts, " "), Len(all_text), Len(char_counts)>>

\* str.encode('utf-8'), character by character.
Utf8(c) ==
    CASE c = "a" -> <<97>>  [] c = "b" -> <<98>>  [] c = "c" -> <<99>>
      [] c = "d" -> <<100>> [] c = "e" -> <<101>> [] c = "g" -> <<103>>
      [] c = "h" -> <<104>> [] c = "o" -> <<111>> [] c = "s" -> <<115>>
      [] c = "t" -> <<116>> [] c = "A" -> <<65>>  [] c = "B" -> <<66>>
      [] c = "Z" -> <<90>>  [] c = "1" -> <<49>>  [] c = "2" -> <<50>>
      [] c = " " -> <<32>>  [] c = "." -> <<46>>  [] c = "_" -> <<95>>
      [] c = "é" -> <<195, 169>>

\* Line 310: np.frombuffer(all_text.encode('utf-8'), dtype=np.uint8)
RECURSIVE Encode(_)
Encode(text) == IF text = <<>> THEN <<>> ELSE Utf8(Head(text)) \o Encode(Tail(text))

\* The elements of a set of numbers, ascending.
RECURSIVE Ascending(_)
Ascending(S) ==
    IF S = {} THEN <<>>
    ELSE LET least == CHOOSE x \in S : \A y \in S : x <= y
         IN  <<least>> \o Ascending(S \ {least})

\* Lines 316 and 326: cp.unique(char_gpu, return_counts=True) zipped into a
\* dict, the byte values ascending.
ByteHistogram(bytes) ==
    LET unique_chars == Ascending({bytes[k] : k \in 1..Len(bytes)})
    IN  [i \in 1..Len(unique_chars) |->
           <<unique_chars[i],
             Cardinality({k \in 1..Len(bytes) : bytes[k] = unique_chars[i]})>>]

\* Lines 328 and 330: the byte ranges of the ASCII letters and digits.
IsLetterByte(byte) == (65 <= byte /\ byte <= 90) \/ (97 <= byte /\ byte <= 122)
IsDigitByte(byte) == 48 <= byte /\ byte <= 57

\* Lines 309-331: the histogram of the bytes and the counts of its letters,
\* digits and spaces, as <<letters, digits, spaces, total, unique>>.
CharDistributionGpu(ts) ==
    LET char_array == Encode(Join(ts))
        char_counts == ByteHistogram(char_array)
        Letter(item) == IsLetterByte(item[1])
        Digit(item) == IsDigitByte(item[1])
    IN  <<SumCounts(SelectSeq(char_counts, Letter)),
          SumCounts(SelectSeq(char_counts, Digit)),
          GetCount(char_counts, 32), Len(char_array), Len(char_counts)>>

\* f"{100*count/total_chars:.1f}": the percentage as printed, in tenths of
\* a percent, the quotient rounded to the nearest tenth and a tie to the
\* even one.
Percent1f(count, total) ==
    LET scaled == 1000 * count
        q == scaled \div total
        r == scaled % total
    IN  IF 2 * r > total \/ (2 * r = total /\ q % 2 = 1) THEN q + 1 ELSE q

\* Lines 288-290 and 341-343: the percentages of letters, digits and spaces.
Percentages(r) == <<Percent1f(r[1], r[4]), Percent1f(r[2], r[4]), Percent1f(r[3], r[4])>>

\* The counts, and after them the percentages once they are printed.
Printed(r) == IF r[4] = 0 THEN r ELSE r \o Percentages(r)

\* Lines 412-415 and character_distribution_cpu (262-294). The percentages
\* printed at lines 288-290 divide by total_chars: ZeroDivisionError when
\* the texts hold no character.
CharsCpu ==
    /\ pc = "L412"
    /\ stdout' = Append(stdout, "CPU: Character Distribution Analysis")
    /\ cpu_chars' = Printed(CharDistributionCpu(texts))
    /\ IF cpu_chars'[4] = 0
       THEN /\ Exit(1, "ZeroDivisionError:L288")
            /\ UNCHANGED <<cpu_time, results>>
       ELSE /\ \E elapsed \in Elapsed :
                  /\ cpu_time' = elapsed
                  /\ results' = SetItem(results, "chars_cpu", elapsed)
            /\ pc' = IF GPU_AVAILABLE THEN "L416" ELSE "L422"
            /\ UNCHANGED exitVars
    /\ UNCHANGED <<mode, GPU_AVAILABLE, conn, loadVars, gpu_time, speedups, devlog,
                   gpu_engine, words, cpu_lengths, gpu_lengths, gpu_chars>>

\* A direct call analyzer.character_distribution_cpu(texts).
CharsCpuCall ==
    /\ pc = "call_chars"
    /\ mode = "character_distribution_cpu"
    /\ stdout' = Append(stdout, "CPU: Character Distribution Analysis")
    /\ cpu_chars' = Printed(CharDistributionCpu(texts))
    /\ IF cpu_chars'[4] = 0
       THEN /\ Exit(1, "ZeroDivisionError:L288")
            /\ UNCHANGED cpu_time
       ELSE /\ \E elapsed \in Elapsed : cpu_time' = elapsed
            /\ pc' = "returned"
            /\ UNCHANGED exitVars
    /\ UNCHANGED <<mode, GPU_AVAILABLE, conn, loadVars, results, gpu_time, speedups,
                   devlog, gpu_engine, words, cpu_lengths, gpu_lengths, gpu_chars>>

\* Where character_distribution_gpu returns to.
CharsGpuReturnPc == IF mode = "main" THEN "L417" ELSE "returned"

\* Line 416 and character_distribution_gpu, lines 298-306.
CharsGpuCall ==
    /\ pc = "L416"
    /\ IF ~GPU_AVAILABLE
       THEN /\ gpu_time' = 0
            /\ gpu_chars' = None
            /\ pc' = CharsGpuReturnPc
            /\ UNCHANGED <<stdout, devlog, gpu_engine>>
       ELSE /\ stdout' = Append(stdout, "GPU: Character Distribution Analysis")
            /\ devlog' = <<"timer_start">>
            /\ gpu_engine' = "chars"
            /\ gpu_time' = gpu_time
            /\ gpu_chars' = gpu_chars
            /\ pc' = "L309"
    /\ UNCHANGED <<mode, GPU_AVAILABLE, conn, loadVars, results, cpu_time, speedups,
                   words, cpu_lengths, gpu_lengths, cpu_chars, exitVars>>

\* Lines 309-313: the text is encoded and char_gpu = cp.array(char_array).
CharsGpuTransfer ==
    /\ pc = "L309"
    /\ devlog' = Append(devlog, "h2d")
    /\ pc' = "L316"
    /\ UNCHANGED <<mode, GPU_AVAILABLE, conn, loadVars, results, cpu_time, gpu_time,
                   speedups, stdout, gpu_engine, words, statVars, exitVars>>

\* Lines 316-319: cp.unique(char_gpu, return_counts=True), a device reduction.
CharsGpuUnique ==
    /\ pc = "L316"
    /\ devlog' = Append(devlog, "reduce")
    /\ pc' = "L322"
    /\ UNCHANGED <<mode, GPU_AVAILABLE, conn, loadVars, results, cpu_time, gpu_time,
                   speedups, stdout, gpu_engine, words, statVars, exitVars>>

\* Lines 322-331: cp.asnumpy(unique_chars) and cp.asnumpy(counts) read the
\* histogram back; the letters, digits and spaces are then counted on the host.
CharsGpuReadBack ==
    /\ pc = "L322"
    /\ devlog' = devlog \o <<"readback", "readback">>
    /\ gpu_chars' = CharDistributionGpu(texts)
    /\ pc' = "L333"
    /\ UNCHANGED <<mode, GPU_AVAILABLE, conn, loadVars, results, cpu_time, gpu_time,
                   speedups, stdout, gpu_engine, words, cpu_lengths, gpu_lengths,
                   cpu_chars, exitVars>>

\* CharsGpuSync without the call of line 333.
CharsGpuNoSync ==
    /\ pc = "L333"
    /\ pc' = "L335"
    /\ UNCHANGED <<mode, GPU_AVAILABLE, conn, loadVars, mainVars, exitVars>>

\* Line 333: cp.cuda.Stream.null.synchronize()
CharsGpuSync ==
    /\ pc = "L333"
    /\ devlog' = Append(devlog, "synchronize")
    /\ pc' = "L335"
    /\ UNCHANGED <<mode, GPU_AVAILABLE, conn, loadVars, results, cpu_time, gpu_time,
                   speedups, stdout, gpu_engine, words, statVars, exitVars>>

\* Lines 335-347: the timer is stopped and (char_counts, elapsed) returned.
\* The percentages printed at lines 341-343 divide by total_chars:
\* ZeroDivisionError when the texts hold no byte.
CharsGpuStop ==
    /\ pc = "L335"
    /\ devlog' = Append(devlog, "timer_stop")
    /\ IF gpu_chars[4] = 0
       THEN /\ Exit(1, "ZeroDivisionError:L341")
            /\ UNCHANGED gpu_time
       ELSE /\ \E elapsed \in Elapsed : gpu_time' = elapsed
            /\ pc' = CharsGpuReturnPc
            /\ UNCHANGED exitVars
    /\ gpu_chars' = Printed(gpu_chars)
    /\ UNCHANGED <<mode, GPU_AVAILABLE, conn, loadVars, results, cpu_time,
                   speedups, stdout, gpu_engine, words, cpu_lengths, gpu_lengths,
                   cpu_chars>>

\* Lines 417-419: the GPU time is recorded and the speedup computed.
CharsSpeedup ==
    /\ pc = "L417"
    /\ results' = SetItem(results, "chars_gpu", gpu_time)
    /\ speedups' = Append(speedups, <<"chars", "L418", GuardedSpeedup(cpu_time, gpu_time)>>)
    /\ pc' = "L422"
    /\ UNCHANGED <<mode, GPU_AVAILABLE, conn, loadVars, cpu_time, gpu_time, stdout,
                   devlog, gpu_engine, words, statVars, exitVars>>

\* The lines at which a GPU engine calls into the device runtime.
DeviceCallLines == {"L197", "L201", "L212", "L309", "L316", "L322", "L333"}

\* A call into the device runtime raises (out of device memory, no usable
\* device). Neither the engines nor main catch it: the process ends with a
\* traceback and status 1.
DeviceRaises ==
    /\ pc \in DeviceCallLines
    /\ Exit(1, "DeviceError")
    /\ UNCHANGED <<mode, GPU_AVAILABLE, conn, loadVars, mainVars>>

\* ---------------------------------------------------------- the summary
\* Lines 433 and 437: speedup = results[cpu] / results[gpu]; a float
\* division by 0.0 raises ZeroDivisionError, here None.
SummarySpeedup(c, g) == IF g = 0 THEN None ELSE Ratio(c, g)

\* Lines 430-438: the speedups the summary computes for the pairs it finds
\* in results, up to and including the first that raises.
SummarySpeedups ==
    LET has(t) == HasKey(results, t \o "_cpu") /\ HasKey(results, t \o "_gpu")
        sp(t) == SummarySpeedup(Lookup(results, t \o "_cpu"), Lookup(results, t \o "_gpu"))
        one(t, line) == IF has(t) THEN << <<t, line, sp(t)>> >> ELSE <<>>
        first == one("lengths", "L433")
    IN  IF ~GPU_AVAILABLE THEN <<>>
        ELSE IF first # <<>> /\ first[1][3] = None THEN first
        ELSE first \o one("chars", "L437")

\* Lines 422-438: the times are listed, then the speedups.
Summary ==
    /\ pc = "L422"
    /\ stdout' = Append(stdout, "PERFORMANCE SUMMARY")
    /\ LET sps == SummarySpeedups
           raised == sps # <<>> /\ sps[Len(sps)][3] = None
       IN  /\ speedups' = speedups \o sps
           /\ IF raised THEN Exit(1, "ZeroDivisionError")
                        ELSE pc' = "L440" /\ UNCHANGED exitVars
    /\ UNCHANGED <<mode, GPU_AVAILABLE, conn, loadVars, results, cpu_time, gpu_time,
                   devlog, gpu_engine, words, statVars>>

\* Lines 440-447 and close (349-353): the connection is closed, the banner
\* printed again and main returns.
CloseAndEnd ==
    /\ pc = "L440"
    /\ conn' = "closed"
    /\ stdout' = Append(stdout, "PERFORMANCE SUMMARY")
    /\ Exit(0, "end")
    /\ UNCHANGED <<mode, GPU_AVAILABLE, loadVars, results, cpu_time, gpu_time,
                   speedups, devlog, gpu_engine, words, statVars>>

\* ------------------------------------------------------ specifications
Next ==
    \/ LoadCall
    \/ TryPrimary
    \/ TryFallback
    \/ AfterFallbacks
    \/ ReturnLoaded
    \/ ModuleStart
    \/ Connect
    \/ GetTableInfo
    \/ MainLoad
    \/ CheckTexts
    \/ LengthsCpu
    \/ LengthsGpuCall
    \/ LengthsGpuTransfer
    \/ LengthsGpuStats
    \/ LengthsGpuSync
    \/ LengthsGpuStop
    \/ LengthsSpeedup
    \/ WordFrequencyCpu
    \/ CharsCpu
    \/ CharsGpuCall
    \/ CharsGpuTransfer
    \/ CharsGpuUnique
    \/ CharsGpuReadBack
    \/ CharsGpuSync
    \/ CharsGpuStop
    \/ CharsSpeedup
    \/ DeviceRaises
    \/ Summary
    \/ CloseAndEnd

Spec == Init /\ [][Next]_vars

\* Direct calls of word_frequency_cpu on every small corpus.
Alphabet == {"a", "b", "B", " "}

TextsUpTo(n) == UNION {[1..k -> Alphabet] : k \in 0..n}

\* The corpus of the tie-break example: "the cat sat", "the dog sat".
ExampleCorpus == << <<"t", "h", "e", " ", "c", "a", "t", " ", "s", "a", "t">>,
                    <<"t", "h", "e", " ", "d", "o", "g", " ", "s", "a", "t">> >>

\* No text, one text or two texts of at most MaxTextLen characters.
Corpora == {<<>>, ExampleCorpus}
           \cup {<<t>> : t \in TextsUpTo(MaxTextLen)}
           \cup {<<t, u>> : t \in TextsUpTo(MaxTextLen), u \in TextsUpTo(MaxTextLen)}

InitWords ==
    /\ mode = "word_frequency_cpu"
    /\ GPU_AVAILABLE \in BOOLEAN
    /\ pc = "call_words"
    /\ conn = "none"
    /\ cursor = None
    /\ limit = None
    /\ idx = 0
    /\ executed = <<>>
    /\ query = None
    /\ texts \in Corpora
    /\ results = <<>>
    /\ cpu_time = 0
    /\ gpu_time = 0
    /\ speedups = <<>>
    /\ stdout = <<>>
    /\ devlog = <<>>
    /\ gpu_engine = "none"
    /\ words = None
    /\ cpu_lengths = None
    /\ gpu_lengths = None
    /\ cpu_chars = None
    /\ gpu_chars = None
    /\ exit_status = None
    /\ halt = "running"

NextWords == WordFrequencyCall

SpecWords == InitWords /\ [][NextWords]_vars

\* =================================================================== claims
\* The state in which load_text_data has just returned (texts, query): the
\* database it read is still in cursor.
Returned == (mode = "load_text_data" /\ pc = "returned") \/ pc = "L389"

\* The primary statement and the k-th fallback statement, under the limit.
PrimaryQuery == BuildQuery(PrimarySql, limit)
FallbackQuery(k) == BuildQuery(possible_queries[k], limit)

\* What executing a statement on the database would give.
WouldRaise(q) == Raises(cursor[1], q)
WouldLoad(q) == UsableTexts(FetchAll(cursor[1], q))
WouldYield(q) == ~WouldRaise(q) /\ WouldLoad(q) # <<>>

Fallbacks == 1..Len(possible_queries)
Yielding == {k \in Fallbacks : WouldYield(FallbackQuery(k))}
FirstYielding == CHOOSE k \in Yielding : \A j \in Yielding : k <= j

\* C1: when the primary query completes without raising but yields no usable
\* row, the fallback queries are tried in their listed order up to the first
\* that yields a non-null text row, and that one's rows are the result.
C1_ZeroRowsEnterFallbacks ==
    (Returned /\ ~WouldRaise(PrimaryQuery) /\ WouldLoad(PrimaryQuery) = <<>>) =>
        LET last == IF Yielding = {} THEN Len(possible_queries) ELSE FirstYielding
        IN  /\ executed = <<PrimaryQuery>> \o [k \in 1..last |-> FallbackQuery(k)]
            /\ Yielding # {} => texts = WouldLoad(FallbackQuery(last))

\* The case of C1: the primary query yields nothing, a fallback would.
C1_Case ==
    Returned /\ ~WouldRaise(PrimaryQuery) /\ WouldLoad(PrimaryQuery) = <<>>
        /\ Yielding # {}

\* C2: whatever the limit (None included), when the primary query raises and
\* some fallback query would return rows, the rows of the first such fallback
\* are returned, in order, with that fallback query as the query.
C2_FallbackRowsReturned ==
    (Returned /\ WouldRaise(PrimaryQuery) /\ Yielding # {}) =>
        /\ texts = WouldLoad(FallbackQuery(FirstYielding))
        /\ query = FallbackQuery(FirstYielding)

\* C3: every executed attempt carries the same limit, and an attempt is
\* executed whether or not a limit was given: once the primary query has
\* raised, the first fallback query is executed.
C3_LimitUniform ==
    Returned =>
        /\ \A k \in 1..Len(executed) : executed[k][2] = executed[1][2]
        /\ WouldRaise(PrimaryQuery) =>
              \E k \in 1..Len(executed) : executed[k][1] = possible_queries[1]

\* C4: load_text_data returns either a non-empty sequence with the query that
\* produced it, or an empty sequence with no query, and the latter only when
\* every attempt has failed.
C4_ResultShape ==
    Returned =>
        \/ texts # <<>> /\ query # None
        \/ /\ texts = <<>>
           /\ query = None
           /\ ~WouldYield(PrimaryQuery)
           /\ Yielding = {}

\* A run of main that ended at one of its own exits.
Completed == mode = "main" /\ pc = "exited" /\ halt \in {"L377", "L392", "end"}

\* C5: the exit status is non-zero when the connection failed and when no
\* query attempt yielded a row, and zero on every other completed run.
C5_ExitStatus ==
    Completed =>
        IF conn = "none" \/ texts = <<>>
        THEN exit_status[1] # 0
        ELSE exit_status[1] = 0

\* C6: every speedup computed for a task with a CPU and a GPU time is
\* cpu_elapsed / gpu_elapsed, and is 0, with nothing raised, when gpu_elapsed
\* is 0.
C6_SpeedupDefined ==
    /\ halt # "ZeroDivisionError"
    /\ \A k \in 1..Len(speedups) :
          LET c == Lookup(results, speedups[k][1] \o "_cpu")
              g == Lookup(results, speedups[k][1] \o "_gpu")
              v == speedups[k][3]
          IN  /\ v # None
              /\ IF g = 0 THEN v = <<0, 1>> ELSE v[1] * g = v[2] * c

IsPrefix(s, t) == Len(s) <= Len(t) /\ \A k \in 1..Len(s) : s[k] = t[k]

Keys(d) == [k \in 1..Len(d) |-> d[k][1]]

\* The sections of a run and its timing records, with and without the GPU.
SectionsWith(gpu) ==
    <<"DATABASE TABLES", "LOADING DATA", "CPU: Text Length Analysis">>
    \o (IF gpu THEN <<"GPU: Text Length Analysis">> ELSE <<>>)
    \o <<"CPU: Word Frequency Analysis", "CPU: Character Distribution Analysis">>
    \o (IF gpu THEN <<"GPU: Character Distribution Analysis">> ELSE <<>>)
    \o <<"PERFORMANCE SUMMARY", "PERFORMANCE SUMMARY">>

RecordsWith(gpu) ==
    <<"lengths_cpu">> \o (IF gpu THEN <<"lengths_gpu">> ELSE <<>>)
    \o <<"words_cpu", "chars_cpu">> \o (IF gpu THEN <<"chars_gpu">> ELSE <<>>)

\* C7: the harness runs the loader, lengths CPU, lengths GPU, words CPU,
\* characters CPU, characters GPU in that order, the GPU steps exactly when
\* the flag is set; the timing records are in that order, and without the
\* flag there is neither a GPU record nor a speedup.
C7_FixedOrder ==
    mode = "main" =>
        /\ IsPrefix(stdout, SectionsWith(GPU_AVAILABLE))
        /\ IsPrefix(Keys(results), RecordsWith(GPU_AVAILABLE))
        /\ pc \in {"L422", "L440"} \/ halt \in {"end", "ZeroDivisionError"} =>
              Keys(results) = RecordsWith(GPU_AVAILABLE)
        /\ halt = "end" => stdout = SectionsWith(GPU_AVAILABLE)
        /\ ~GPU_AVAILABLE => speedups = <<>>

\* A run with the flag set that went through every step.
C7_Reached == halt = "end" /\ GPU_AVAILABLE /\ Len(results) = Len(RecordsWith(TRUE))

\* C8: when a GPU engine raises, the run goes on: the CPU timings are kept
\* and word frequency, character distribution and the summary still run.
C8_GpuFailureContinues ==
    (pc = "exited" /\ halt = "DeviceError") =>
        /\ HasKey(results, "lengths_cpu")
        /\ HasKey(results, "words_cpu")
        /\ HasKey(results, "chars_cpu")
        /\ \E k \in 1..Len(stdout) : stdout[k] = "PERFORMANCE SUMMARY"

\* C9 as stated: in a GPU engine the synchronize comes after the reductions
\* are issued, before any result is read back and before the timer is stopped.
C9_SyncBeforeReadBack ==
    \A i \in 1..Len(devlog) :
        devlog[i] \in {"readback", "timer_stop"} =>
            \E s \in 1..(i - 1) :
                /\ devlog[s] = "synchronize"
                /\ \A j \in 1..Len(devlog) : devlog[j] = "reduce" => j < s

\* C9 as amended: in a GPU engine the synchronize comes after the reductions
\* are issued and their results read back, and before the timer is stopped.
C9_SyncBeforeStop ==
    \A i \in 1..Len(devlog) :
        devlog[i] = "timer_stop" =>
            /\ \E j \in 1..Len(devlog) : devlog[j] = "reduce"
            /\ \E s \in 1..(i - 1) :
                  /\ devlog[s] = "synchronize"
                  /\ \A j \in 1..Len(devlog) :
                        devlog[j] \in {"reduce", "readback"} => j < s

\* The second GPU engine has stopped its timer (the first did before it).
C9_Reached == gpu_engine = "chars" /\ devlog # <<>> /\ devlog[Len(devlog)] = "timer_stop"

\* The tokens of a corpus, in the order of their occurrence.
RECURSIVE AllTokens(_)
AllTokens(ts) == IF ts = <<>> THEN <<>> ELSE FindAllWords(Head(ts)) \o AllTokens(Tail(ts))

Occurrences(all, w) == Cardinality({k \in 1..Len(all) : all[k] = w})
FirstSeen(all, w) == CHOOSE k \in 1..Len(all) : all[k] = w /\ \A j \in 1..(k - 1) : all[j] # w

\* a ranks above b: more occurrences, or as many and first seen earlier.
RanksAbove(all, a, b) ==
    \/ Occurrences(all, a) > Occurrences(all, b)
    \/ /\ Occurrences(all, a) = Occurrences(all, b)
       /\ FirstSeen(all, a) < FirstSeen(all, b)

\* C10: the top-N list of word_frequency_cpu holds the N highest-ranked
\* tokens with their counts, by descending count and, among equal counts, by
\* ascending first occurrence in the corpus; the total is the number of
\* tokens (the sum of the counts) and the unique count the number of
\* distinct tokens.
C10_TopNOrder ==
    words # None =>
        LET all == AllTokens(texts)
            vocabulary == {all[k] : k \in 1..Len(all)}
            top == words[2]
            listed == {top[k][1] : k \in 1..Len(top)}
        IN  /\ Len(top) = Min(words[1], Cardinality(vocabulary))
            /\ \A k \in 1..Len(top) :
                  /\ top[k][1] \in vocabulary
                  /\ top[k][2] = Occurrences(all, top[k][1])
            /\ \A i \in 1..Len(top) : \A j \in (i + 1)..Len(top) :
                  RanksAbove(all, top[i][1], top[j][1])
            /\ \A w \in vocabulary \ listed : \A k \in 1..Len(top) :
                  RanksAbove(all, top[k][1], w)
            /\ words[3] = Len(all)
            /\ words[4] = Cardinality(vocabulary)

\* The example: of "the cat sat", "the dog sat" the top two are "the", then "sat".
C10_Reached ==
    /\ texts = ExampleCorpus
    /\ words # None
    /\ Len(words[2]) >= 2
    /\ words[2][1] = << <<"t", "h", "e">>, 2 >>
    /\ words[2][2] = << <<"s", "a", "t">>, 2 >>

\* ------------------------------------------------------------------------
\* Direct calls of character_distribution_cpu and character_distribution_gpu
\* on every small corpus of a letter, a digit, the space, a punctuation mark
\* and a character of two bytes.
CharAlphabet == {"a", "1", " ", ".", "é"}

CharTextsUpTo(n) == UNION {[1..k -> CharAlphabet] : k \in 0..n}

\* The corpus of the example: "ab12 ".
CharExample == << <<"a", "b", "1", "2", " ">> >>

\* No text, one text of at most MaxCharTextLen characters, or the same
\* characters in two texts, the first of at most one character.
CharCorpora == {<<>>, CharExample}
               \cup {<<t>> : t \in CharTextsUpTo(MaxCharTextLen)}
               \cup {<<t, u>> : t \in CharTextsUpTo(1),
                                u \in CharTextsUpTo(MaxCharTextLen - 1)}

InitChars ==
    /\ mode \in {"character_distribution_cpu", "character_distribution_gpu"}
    /\ GPU_AVAILABLE \in BOOLEAN
    /\ pc = IF mode = "character_distribution_cpu" THEN "call_chars" ELSE "L416"
    /\ conn = "none"
    /\ cursor = None
    /\ limit = None
    /\ idx = 0
    /\ executed = <<>>
    /\ query = None
    /\ texts \in CharCorpora
    /\ results = <<>>
    /\ cpu_time = 0
    /\ gpu_time = 0
    /\ speedups = <<>>
    /\ stdout = <<>>
    /\ devlog = <<>>
    /\ gpu_engine = "none"
    /\ words = None
    /\ cpu_lengths = None
    /\ gpu_lengths = None
    /\ cpu_chars = None
    /\ gpu_chars = None
    /\ exit_status = None
    /\ halt = "running"

NextChars ==
    \/ CharsCpuCall
    \/ CharsGpuCall
    \/ CharsGpuTransfer
    \/ CharsGpuUnique
    \/ CharsGpuReadBack
    \/ CharsGpuSync
    \/ CharsGpuStop
    \/ DeviceRaises

SpecChars == InitChars /\ [][NextChars]_vars

\* The counts r = <<letters, digits, spaces, total, unique>> of a stream of
\* the given number of units: the three buckets together hold no more than
\* the total.
WithinTotal(r, units) ==
    /\ r[4] = units
    /\ r[1] + r[2] + r[3] <= r[4]

\* The counts of "ab12 ".
OnExample(r) == texts = CharExample => SubSeq(r, 1, 4) = <<2, 2, 1, 5>>

\* C11 as stated: the character distribution, over characters on the CPU and
\* over bytes on the GPU, puts each unit in at most one of the letter, digit
\* and space buckets, so letters + digits + spaces is at most the number of
\* units and the three percentages sum to at most 100 percent (1000 tenths);
\* "ab12 " gives 2, 2, 1 of 5.
C11_PercentagesWithin100 ==
    /\ cpu_chars # None =>
          /\ WithinTotal(cpu_chars, Len(Join(texts)))
          /\ Len(cpu_chars) = 8 => cpu_chars[6] + cpu_chars[7] + cpu_chars[8] <= 1000
          /\ OnExample(cpu_chars)
    /\ gpu_chars # None =>
          /\ WithinTotal(gpu_chars, Len(Encode(Join(texts))))
          /\ Len(gpu_chars) = 8 => gpu_chars[6] + gpu_chars[7] + gpu_chars[8] <= 1000
          /\ OnExample(gpu_chars)

\* C11 amended: letters + digits + spaces is at most the number of units;
\* each printed percentage is at most 100.0 and, rounded to one decimal as
\* they are, the three sum to at most 100.1; "ab12 " gives 2, 2, 1 of 5.
C11_Buckets ==
    /\ cpu_chars # None =>
          /\ WithinTotal(cpu_chars, Len(Join(texts)))
          /\ Len(cpu_chars) = 8 =>
                /\ \A k \in 6..8 : cpu_chars[k] <= 1000
                /\ cpu_chars[6] + cpu_chars[7] + cpu_chars[8] <= 1001
          /\ OnExample(cpu_chars)
    /\ gpu_chars # None =>
          /\ WithinTotal(gpu_chars, Len(Encode(Join(texts))))
          /\ Len(gpu_chars) = 8 =>
                /\ \A k \in 6..8 : gpu_chars[k] <= 1000
                /\ gpu_chars[6] + gpu_chars[7] + gpu_chars[8] <= 1001
          /\ OnExample(gpu_chars)

\* The GPU engine has returned the counts and percentages of "ab12 ".
C11_Reached ==
    /\ texts = CharExample
    /\ pc = "returned"
    /\ gpu_chars = <<2, 2, 1, 5, 5, 400, 400, 200>>

\* The lines of main at which an engine is about to run or is running.
EngineLines == {"L398", "L402", "L197", "L201", "L212", "L214", "L408", "L412",
                "L416", "L309", "L316", "L322", "L333", "L335"}

\* C12: whenever an engine runs in main the corpus is a non-empty sequence
\* of non-empty strings, so the record count and the total character or byte
\* count, the divisors of the means and of the percentages, are positive and
\* no engine fails on an empty input.
C12_DivisorsPositive ==
    mode = "main" =>
        /\ pc \in EngineLines =>
              /\ texts # <<>>
              /\ \A k \in 1..Len(texts) : texts[k] # <<>>
        /\ cpu_lengths # None => cpu_lengths[1] > 0
        /\ gpu_lengths # None => gpu_lengths[1] > 0
        /\ cpu_chars # None => cpu_chars[4] > 0
        /\ gpu_chars # None => gpu_chars[4] > 0
        /\ halt \notin {"ValueError", "ZeroDivisionError:L288", "ZeroDivisionError:L341"}

\* Every engine of main has run, on a corpus of more than one record.
C12_Reached ==
    /\ mode = "main"
    /\ pc = "L417"
    /\ Len(texts) > 1
    /\ cpu_lengths # None /\ gpu_lengths # None /\ cpu_chars # None /\ gpu_chars # None

====
